---------------------------- MODULE Spec2Model ----------------------------
(* Structural-feature engine of structfeatures/core.py: the CSR accessor    *)
(* get_neigh, the directed triangle motif counter and the undirected local *)
(* triangle counter, both written as numba prange loops over the nodes.    *)
(*                                                                         *)
(* Arrays are sequences; the code's 0-based element arr[i] is arr[i + 1].  *)
(* Node ids are 0 .. num_nodes - 1.                                        *)
EXTENDS Integers, Sequences, FiniteSets, TLC

(***************************************************************************)
(* Bounds of the explored inputs.                                          *)
(***************************************************************************)
MaxNodes == 3
MaxRawNodes == 2
MaxRawSlots == 3
MaxBadNodes == 2
MaxBadSlots == 1
MaxParNodes == 2
MaxParSlots == 3
MaxParRawSlots == 2
MaxFairNodes == 2
MaxFairSlots == 2

VARIABLES
    out_indices, out_indptr, in_indices, in_indptr,
    pc, fn,
    num_out_triangles, num_in_triangles, num_cycle_triangles,
    num_middle_triangles, num_triangles,
    iter

inputs == <<out_indices, out_indptr, in_indices, in_indptr>>
results == <<num_out_triangles, num_in_triangles, num_cycle_triangles,
             num_middle_triangles, num_triangles>>
vars == <<inputs, pc, fn, results, iter>>

\* the tuple _count_number_triangles_directed returns
returned_tuple ==
    << num_out_triangles, num_in_triangles, num_cycle_triangles, num_middle_triangles >>

(***************************************************************************)
(* Array reads as the compiled kernels perform them.                       *)
(***************************************************************************)

\* arr[i] for a signed index: a negative index wraps around once; bounds are
\* not checked, so any other index reads whatever lies there (oob).
getitem(arr, i, oob) ==
    IF 0 <= i /\ i < Len(arr) THEN arr[i + 1]
    ELSE IF -Len(arr) <= i /\ i < 0 THEN arr[Len(arr) + i + 1]
    ELSE oob

\* what an out-of-bounds read may return
Garbage == (0 - 1)..MaxRawSlots

\* the stand-in for the value read out of bounds in a call that never does
Unread == CHOOSE g \in Garbage : TRUE

\* the values a call may read out of bounds
GarbageOf(reads_oob) == IF reads_oob THEN Garbage ELSE {Unread}

\* TRUE when arr[i] reads outside the array
oob_read(arr, i) == ~(-Len(arr) <= i /\ i < Len(arr))

\* a slice bound k normalised against length n
fix_slice(k, n) ==
    IF k < 0 THEN (IF k + n < 0 THEN 0 ELSE k + n)
    ELSE IF k > n THEN n ELSE k

\* arr[lo:hi]
getslice(arr, lo, hi) ==
    LET a == fix_slice(lo, Len(arr))
        b == fix_slice(hi, Len(arr))
    IN  IF a >= b THEN << >> ELSE SubSeq(arr, a + 1, b)

get_neigh(node, indices, indptr, oob) ==
    getslice(indices, getitem(indptr, node, oob), getitem(indptr, node + 1, oob))

get_neigh_oob(node, indptr) ==
    oob_read(indptr, node) \/ oob_read(indptr, node + 1)

\* set(array)
set(s) == {s[i] : i \in 1..Len(s)}

num_nodes_of(indptr) == Len(indptr) - 1

\* np.zeros((n,)) ; a negative n is an error and is never built here
zeros(n) == [i \in 1..n |-> 0]

(***************************************************************************)
(* _count_number_triangles_directed, one node iteration                    *)
(***************************************************************************)

\* variant: the inner loops without the "== v" skip
RECURSIVE directed_inner_noskip(_, _, _, _, _)
directed_inner_noskip(slice, v, out_egonet, in_egonet, acc) ==
    IF slice = << >> THEN acc
    ELSE LET x == Head(slice)
             nxt == << acc[1] + (IF x \in out_egonet THEN 1 ELSE 0),
                       acc[2] + (IF x \in in_egonet THEN 1 ELSE 0) >>
         IN  directed_inner_noskip(Tail(slice), v, out_egonet, in_egonet, nxt)

\* variant: "== v" ends the inner loop where the code moves on to the next entry
RECURSIVE directed_inner_break(_, _, _, _, _)
directed_inner_break(slice, v, out_egonet, in_egonet, acc) ==
    IF slice = << >> THEN acc
    ELSE LET x == Head(slice)
         IN  IF x = v THEN acc
             ELSE directed_inner_break(Tail(slice), v, out_egonet, in_egonet,
                      << acc[1] + (IF x \in out_egonet THEN 1 ELSE 0),
                         acc[2] + (IF x \in in_egonet THEN 1 ELSE 0) >>)

\* the body of either inner for loop: acc = <<first counter, second counter>>
RECURSIVE directed_inner(_, _, _, _, _)
directed_inner(slice, v, out_egonet, in_egonet, acc) ==
    IF slice = << >> THEN acc
    ELSE LET x == Head(slice)
             nxt == IF x = v THEN acc
                    ELSE << acc[1] + (IF x \in out_egonet THEN 1 ELSE 0),
                            acc[2] + (IF x \in in_egonet THEN 1 ELSE 0) >>
         IN  directed_inner(Tail(slice), v, out_egonet, in_egonet, nxt)

\* for neigh in egonet: for x in get_neigh(neigh, out_indices, out_indptr)
RECURSIVE directed_outer(_, _, _, _, _, _, _, _)
directed_outer(rest, v, out_egonet, in_egonet, oi, op, oob, acc) ==
    IF rest = {} THEN acc
    ELSE LET neigh == CHOOSE n \in rest : TRUE
         IN  directed_outer(rest \ {neigh}, v, out_egonet, in_egonet, oi, op, oob,
                 directed_inner(get_neigh(neigh, oi, op, oob), v,
                                out_egonet, in_egonet, acc))

\* variant: the second loop increments the in counter where the code
\* increments the middleman counter, and the other way round
directed_iteration_mid_in(v, oi, op, ii, ip, oob) ==
    LET out_egonet == set(get_neigh(v, oi, op, oob))
        in_egonet == set(get_neigh(v, ii, ip, oob))
        a == directed_outer(out_egonet, v, out_egonet, in_egonet, oi, op, oob, <<0, 0>>)
        b == directed_outer(in_egonet, v, out_egonet, in_egonet, oi, op, oob, <<0, 0>>)
    IN  << a[1], b[1], a[2], b[2] >>

\* variant: the first loop increments the cycle counter where the code
\* increments the out counter, and the other way round
directed_iteration_out_cycle(v, oi, op, ii, ip, oob) ==
    LET out_egonet == set(get_neigh(v, oi, op, oob))
        in_egonet == set(get_neigh(v, ii, ip, oob))
        a == directed_outer(out_egonet, v, out_egonet, in_egonet, oi, op, oob, <<0, 0>>)
        b == directed_outer(in_egonet, v, out_egonet, in_egonet, oi, op, oob, <<0, 0>>)
    IN  << a[2], b[2], a[1], b[1] >>

\* the counts of node v, in the order of the returned tuple:
\* <<out, in, cycle, middleman>>
directed_iteration(v, oi, op, ii, ip, oob) ==
    LET out_egonet == set(get_neigh(v, oi, op, oob))
        in_egonet == set(get_neigh(v, ii, ip, oob))
        a == directed_outer(out_egonet, v, out_egonet, in_egonet, oi, op, oob, <<0, 0>>)
        b == directed_outer(in_egonet, v, out_egonet, in_egonet, oi, op, oob, <<0, 0>>)
    IN  << a[1], b[2], a[2], b[1] >>

count_number_triangles_directed(oi, op, ii, ip, oob) ==
    LET n == num_nodes_of(op)
        it == [v \in 0..(n - 1) |-> directed_iteration(v, oi, op, ii, ip, oob)]
    IN  << [i \in 1..n |-> it[i - 1][1]],
           [i \in 1..n |-> it[i - 1][2]],
           [i \in 1..n |-> it[i - 1][3]],
           [i \in 1..n |-> it[i - 1][4]] >>

\* some read of the call falls outside an indptr array
directed_oob(oi, op, ii, ip) ==
    \E v \in 0..(num_nodes_of(op) - 1) :
        \/ get_neigh_oob(v, ip)
        \/ \E w \in set(get_neigh(v, oi, op, Unread)) \cup set(get_neigh(v, ii, ip, Unread)) :
               get_neigh_oob(w, op)

(***************************************************************************)
(* _count_number_local_triangles, one node iteration                       *)
(***************************************************************************)
\* variant: the neighbour's slice is deduplicated before it is counted
local_inner_dedup(slice, egonet, num_t) ==
    num_t + Cardinality(set(slice) \cap egonet)

RECURSIVE local_inner(_, _, _)
local_inner(slice, egonet, num_t) ==
    IF slice = << >> THEN num_t
    ELSE local_inner(Tail(slice), egonet,
                     IF Head(slice) \in egonet THEN num_t + 1 ELSE num_t)

RECURSIVE local_outer(_, _, _, _, _, _)
local_outer(rest, egonet, indices, indptr, oob, num_t) ==
    IF rest = {} THEN num_t
    ELSE LET neigh == CHOOSE n \in rest : TRUE
         IN  local_outer(rest \ {neigh}, egonet, indices, indptr, oob,
                 local_inner(get_neigh(neigh, indices, indptr, oob), egonet, num_t))

\* variant: the egonet holds the node itself too
local_iteration_closed(v, indices, indptr, oob) ==
    LET egonet == set(get_neigh(v, indices, indptr, oob)) \cup {v}
    IN  local_outer(egonet, egonet, indices, indptr, oob, 0)

\* variant: the outer loop runs over the raw slice of the node, not over a set
RECURSIVE local_outer_raw(_, _, _, _, _, _)
local_outer_raw(slice, egonet, indices, indptr, oob, num_t) ==
    IF slice = << >> THEN num_t
    ELSE local_outer_raw(Tail(slice), egonet, indices, indptr, oob,
             local_inner(get_neigh(Head(slice), indices, indptr, oob), egonet, num_t))

local_iteration_raw(v, indices, indptr, oob) ==
    LET egonet == set(get_neigh(v, indices, indptr, oob))
    IN  local_outer_raw(get_neigh(v, indices, indptr, oob), egonet,
                        indices, indptr, oob, 0)

\* variant: every triangle of the node is counted once, not once per ordered pair
local_iteration_unordered(v, indices, indptr, oob) ==
    LET egonet == set(get_neigh(v, indices, indptr, oob))
    IN  local_outer(egonet, egonet, indices, indptr, oob, 0) \div 2

local_iteration(v, indices, indptr, oob) ==
    LET egonet == set(get_neigh(v, indices, indptr, oob))
    IN  local_outer(egonet, egonet, indices, indptr, oob, 0)

\* variant: num_t is set to 0 once, before the loop over the nodes
RECURSIVE local_carry(_, _, _, _)
local_carry(v, indices, indptr, oob) ==
    IF v < 0 THEN 0
    ELSE local_iteration(v, indices, indptr, oob) + local_carry(v - 1, indices, indptr, oob)

count_number_local_triangles_carry(indices, indptr, oob) ==
    [i \in 1..num_nodes_of(indptr) |-> local_carry(i - 1, indices, indptr, oob)]

count_number_local_triangles(indices, indptr, oob) ==
    [i \in 1..num_nodes_of(indptr) |-> local_iteration(i - 1, indices, indptr, oob)]

local_oob(indices, indptr) ==
    \E v \in 0..(num_nodes_of(indptr) - 1) :
        \E w \in set(get_neigh(v, indices, indptr, Unread)) : get_neigh_oob(w, indptr)

(***************************************************************************)
(* Inputs: CSR arrays of int64                                             *)
(***************************************************************************)

\* a valid CSR over n nodes: indptr of n + 1 non-decreasing offsets from 0 to
\* len(indices), every entry a node id
ValidCSR(indices, indptr) ==
    /\ Len(indptr) >= 1
    /\ indptr[1] = 0
    /\ indptr[Len(indptr)] = Len(indices)
    /\ \A i \in 1..(Len(indptr) - 1) : indptr[i] <= indptr[i + 1]
    /\ \A i \in 1..Len(indices) :
           0 <= indices[i] /\ indices[i] < num_nodes_of(indptr)

\* every valid CSR of n nodes and m slots
CSRs(n, m) ==
    [1..m -> 0..(n - 1)] \X
    { p \in [1..(n + 1) -> 0..m] :
        /\ p[1] = 0 /\ p[n + 1] = m
        /\ \A i \in 1..n : p[i] <= p[i + 1] }

\* the slice of node v, for valid CSRs
Slice(c, v) == SubSeq(c[1], c[2][v + 1] + 1, c[2][v + 2])

\* number of occurrences of x in s
Occ(s, x) == Cardinality({i \in 1..Len(s) : s[i] = x})

RECURSIVE Flat(_, _, _)
\* concatenation of row(0) .. row(n - 1)
Flat(row, v, n) == IF v >= n THEN << >> ELSE row[v] \o Flat(row, v + 1, n)

RECURSIVE Offsets(_, _, _, _)
Offsets(row, v, n, at) ==
    IF v >= n THEN << at >> ELSE << at >> \o Offsets(row, v + 1, n, at + Len(row[v]))

\* the CSR whose node v has the slice row[v]
CSRFromRows(row, n) == << Flat(row, 0, n), Offsets(row, 0, n, 0) >>

RECURSIVE Repeat(_, _)
Repeat(x, k) == IF k <= 0 THEN << >> ELSE << x >> \o Repeat(x, k - 1)

RECURSIVE InRow(_, _, _, _)
\* the sources s .. n - 1 of the edges into t, in ascending order, one per edge
InRow(c, t, s, n) ==
    IF s >= n THEN << >>
    ELSE Repeat(s, Occ(Slice(c, s), t)) \o InRow(c, t, s + 1, n)

\* the exact transpose of a valid CSR
CSRTranspose(c) ==
    LET n == num_nodes_of(c[2])
    IN  CSRFromRows([t \in 0..(n - 1) |-> InRow(c, t, 0, n)], n)

RECURSIVE SortedSeq(_)
SortedSeq(S) ==
    IF S = {} THEN << >>
    ELSE LET m == CHOOSE x \in S : \A y \in S : x <= y
         IN  << m >> \o SortedSeq(S \ {m})

\* the CSR of a simple directed graph given by its edge set
CSRFromEdges(E, n) ==
    CSRFromRows([v \in 0..(n - 1) |-> SortedSeq({w \in 0..(n - 1) : <<v, w>> \in E})], n)

LooplessPairs(n) == {e \in (0..(n - 1)) \X (0..(n - 1)) : e[1] # e[2]}

\* out-adjacencies: every CSR of few slots (repeated entries, self-loops, any
\* order) and every self-loop-free simple directed graph
RawCSRs == UNION { CSRs(n, m) : n \in 1..MaxRawNodes, m \in 0..MaxRawSlots }
SimpleCSRs ==
    UNION { { CSRFromEdges(E, n) : E \in SUBSET LooplessPairs(n) } : n \in 1..MaxNodes }
ValidOut == RawCSRs \cup SimpleCSRs

\* a valid CSR with one entry of indices replaced by a value outside [0, N),
\* or one offset of indptr replaced
BadBase == UNION { CSRs(n, m) : n \in 1..MaxBadNodes, m \in 0..MaxBadSlots }
BadEntries(n) == ((0 - n - 2)..(0 - 1)) \cup (n..(n + 1))
BadIndices ==
    UNION { { << [c[1] EXCEPT ![i] = e], c[2] >> :
                i \in 1..Len(c[1]), e \in BadEntries(num_nodes_of(c[2])) } :
            c \in BadBase }
BadIndptr ==
    { b \in UNION { { << c[1], [c[2] EXCEPT ![i] = p] >> :
                        i \in 1..Len(c[2]), p \in 0..(Len(c[1]) + 1) } : c \in BadBase } :
        ~ValidCSR(b[1], b[2]) }


\* a node iteration of the prange that has not started
Waiting == [phase |-> "waiting", out_egonet |-> {}, in_egonet |-> {},
            rest |-> {}, slice |-> << >>, ops |-> << >>, reg |-> << >>,
            num_t |-> 0]

Init ==
    /\ \/ \E c \in ValidOut :
              /\ out_indices = c[1] /\ out_indptr = c[2]
              /\ \E d \in {CSRTranspose(c), c} :
                     in_indices = d[1] /\ in_indptr = d[2]
       \/ \E c \in BadIndices \cup BadIndptr :
              /\ out_indices = c[1] /\ out_indptr = c[2]
              /\ in_indices = c[1] /\ in_indptr = c[2]
    /\ pc = "ready"
    /\ fn = "none"
    /\ num_out_triangles = << >>
    /\ num_in_triangles = << >>
    /\ num_cycle_triangles = << >>
    /\ num_middle_triangles = << >>
    /\ num_triangles = << >>
    /\ iter = [v \in 0..(num_nodes_of(out_indptr) - 1) |-> Waiting]

(***************************************************************************)
(* A call of either counter, from entry to return                          *)
(***************************************************************************)
directed_call ==
    /\ pc = "ready"
    /\ \E oob \in GarbageOf(directed_oob(out_indices, out_indptr,
                                            in_indices, in_indptr)) :
           LET r == count_number_triangles_directed(
                        out_indices, out_indptr, in_indices, in_indptr, oob)
           IN  /\ num_out_triangles' = r[1]
               /\ num_in_triangles' = r[2]
               /\ num_cycle_triangles' = r[3]
               /\ num_middle_triangles' = r[4]
    /\ pc' = "returned"
    /\ fn' = "directed"
    /\ UNCHANGED <<inputs, num_triangles, iter>>

local_call ==
    /\ pc = "ready"
    /\ \E oob \in GarbageOf(local_oob(out_indices, out_indptr)) :
           num_triangles' = count_number_local_triangles(out_indices, out_indptr, oob)
    /\ pc' = "returned"
    /\ fn' = "local"
    /\ UNCHANGED <<inputs, num_out_triangles, num_in_triangles,
                   num_cycle_triangles, num_middle_triangles, iter>>

\* an out-of-bounds read may also end the process
directed_fault ==
    /\ pc = "ready"
    /\ directed_oob(out_indices, out_indptr, in_indices, in_indptr)
    /\ pc' = "fault"
    /\ fn' = "directed"
    /\ UNCHANGED <<inputs, results, iter>>

local_fault ==
    /\ pc = "ready"
    /\ local_oob(out_indices, out_indptr)
    /\ pc' = "fault"
    /\ fn' = "local"
    /\ UNCHANGED <<inputs, results, iter>>

Next == directed_call \/ local_call \/ directed_fault \/ local_fault

Spec == Init /\ [][Next]_vars

(***************************************************************************)
(* The prange loops step by step.  Every node iteration is a process of    *)
(* its own: the iterations start in any order and their steps interleave   *)
(* freely, which covers every distribution of the iterations over worker   *)
(* threads (a thread that runs two iterations runs one after the other).   *)
(* Every access to a result array is a step of its own, and a set is       *)
(* iterated in any order.                                                  *)
(***************************************************************************)
\* the graphs of at most MaxParSlots edges, self-loops allowed, and every CSR
\* of at most MaxParRawSlots slots (repeated entries, any order)
ParInputs ==
    UNION { { CSRFromEdges(E, n) :
                E \in { F \in SUBSET ((0..(n - 1)) \X (0..(n - 1))) :
                           Cardinality(F) <= MaxParSlots } }
            \cup UNION { CSRs(n, m) : m \in 0..MaxParRawSlots } :
            n \in 1..MaxParNodes }

InitPar ==
    /\ \E c \in ParInputs :
           /\ out_indices = c[1] /\ out_indptr = c[2]
           /\ in_indices = CSRTranspose(c)[1] /\ in_indptr = CSRTranspose(c)[2]
    /\ pc = "ready"
    /\ fn = "none"
    /\ num_out_triangles = << >>
    /\ num_in_triangles = << >>
    /\ num_cycle_triangles = << >>
    /\ num_middle_triangles = << >>
    /\ num_triangles = << >>
    /\ iter = [v \in 0..(num_nodes_of(out_indptr) - 1) |-> Waiting]

\* lines 44-48: the four result arrays are allocated, then the prange starts
directed_enter ==
    /\ pc = "ready"
    /\ pc' = "running"
    /\ fn' = "directed"
    /\ num_out_triangles' = zeros(num_nodes_of(out_indptr))
    /\ num_in_triangles' = zeros(num_nodes_of(out_indptr))
    /\ num_cycle_triangles' = zeros(num_nodes_of(out_indptr))
    /\ num_middle_triangles' = zeros(num_nodes_of(out_indptr))
    /\ UNCHANGED <<inputs, num_triangles, iter>>

\* lines 83-84
local_enter ==
    /\ pc = "ready"
    /\ pc' = "running"
    /\ fn' = "local"
    /\ num_triangles' = zeros(num_nodes_of(out_indptr))
    /\ UNCHANGED <<inputs, num_out_triangles, num_in_triangles,
                   num_cycle_triangles, num_middle_triangles, iter>>

\* variant: every iteration writes the first slot
write_slot_first(v) == 1

\* the slot of a result array that the iteration of node v writes
write_slot(v) == v + 1

\* the result array a pending increment names
array_of(name) ==
    CASE name = "out" -> num_out_triangles
      [] name = "in" -> num_in_triangles
      [] name = "cycle" -> num_cycle_triangles
      [] name = "middle" -> num_middle_triangles

\* the increments of one inner-loop pass over x (lines 54-59 and 62-67)
increments(phase, x, v, out_egonet, in_egonet) ==
    IF x = v THEN << >>
    ELSE (IF x \in out_egonet
            THEN << IF phase = "out_loop" THEN "out" ELSE "middle" >> ELSE << >>)
         \o
         (IF x \in in_egonet
            THEN << IF phase = "out_loop" THEN "cycle" ELSE "in" >> ELSE << >>)

\* the slices a get_neigh call may return: one, unless it reads out of bounds
neigh_reads(node, indices, indptr) ==
    { get_neigh(node, indices, indptr, oob) : oob \in Garbage }

\* the iteration of node v starts and builds its egonets (lines 50-51, 86-87)
begin(v) ==
    /\ pc = "running"
    /\ iter[v].phase = "waiting"
    /\ \E o \in neigh_reads(v, out_indices, out_indptr) :
       \E i \in neigh_reads(v, in_indices, in_indptr) :
           iter' = [iter EXCEPT ![v] =
               IF fn = "directed"
               THEN [Waiting EXCEPT !.phase = "out_loop", !.rest = set(o),
                                    !.out_egonet = set(o), !.in_egonet = set(i)]
               ELSE [Waiting EXCEPT !.phase = "local_loop", !.rest = set(o),
                                    !.out_egonet = set(o)]]
    /\ UNCHANGED <<inputs, pc, fn, results>>

\* the outer for loop moves to its next neighbour (lines 52-53, 60-61, 89-90)
next_neigh(v) ==
    /\ pc = "running"
    /\ iter[v].phase \in {"out_loop", "in_loop", "local_loop"}
    /\ iter[v].slice = << >> /\ iter[v].ops = << >>
    /\ \E neigh \in iter[v].rest :
       \E sl \in neigh_reads(neigh, out_indices, out_indptr) :
           iter' = [iter EXCEPT ![v].rest = @ \ {neigh}, ![v].slice = sl]
    /\ UNCHANGED <<inputs, pc, fn, results>>

\* one pass of an inner for loop of the directed counter: the tests of
\* lines 54-58 / 62-66 decide which counters are incremented
directed_elem(v) ==
    /\ pc = "running"
    /\ iter[v].phase \in {"out_loop", "in_loop"}
    /\ iter[v].slice # << >> /\ iter[v].ops = << >>
    /\ iter' = [iter EXCEPT ![v].slice = Tail(@),
                    ![v].ops = increments(iter[v].phase, Head(iter[v].slice), v,
                                          iter[v].out_egonet, iter[v].in_egonet)]
    /\ UNCHANGED <<inputs, pc, fn, results>>

\* arr[v] += 1, first half: the slot is read
load(v) ==
    /\ pc = "running"
    /\ iter[v].ops # << >> /\ iter[v].reg = << >>
    /\ iter' = [iter EXCEPT ![v].reg = << array_of(Head(iter[v].ops))[write_slot(v)] >>]
    /\ UNCHANGED <<inputs, pc, fn, results>>

\* arr[v] += 1, second half: the incremented value is written back
store(v) ==
    /\ pc = "running"
    /\ iter[v].ops # << >> /\ iter[v].reg # << >>
    /\ LET name == Head(iter[v].ops)
           slot == write_slot(v)
           val == iter[v].reg[1] + 1
       IN  /\ num_out_triangles' = IF name = "out"
                  THEN [num_out_triangles EXCEPT ![slot] = val] ELSE num_out_triangles
           /\ num_in_triangles' = IF name = "in"
                  THEN [num_in_triangles EXCEPT ![slot] = val] ELSE num_in_triangles
           /\ num_cycle_triangles' = IF name = "cycle"
                  THEN [num_cycle_triangles EXCEPT ![slot] = val] ELSE num_cycle_triangles
           /\ num_middle_triangles' = IF name = "middle"
                  THEN [num_middle_triangles EXCEPT ![slot] = val] ELSE num_middle_triangles
    /\ iter' = [iter EXCEPT ![v].ops = Tail(@), ![v].reg = << >>]
    /\ UNCHANGED <<inputs, pc, fn, num_triangles>>

\* the first outer loop is over: the second one starts (line 60)
second_loop(v) ==
    /\ pc = "running"
    /\ iter[v].phase = "out_loop"
    /\ iter[v].rest = {} /\ iter[v].slice = << >> /\ iter[v].ops = << >>
    /\ iter' = [iter EXCEPT ![v].phase = "in_loop", ![v].rest = iter[v].in_egonet]
    /\ UNCHANGED <<inputs, pc, fn, results>>

\* variant: the iteration of a node is handed out again once it is over
directed_end_restart(v) ==
    /\ pc = "running"
    /\ iter[v].phase = "in_loop"
    /\ iter[v].rest = {} /\ iter[v].slice = << >> /\ iter[v].ops = << >>
    /\ iter' = [iter EXCEPT ![v] = Waiting]
    /\ UNCHANGED <<inputs, pc, fn, results>>

\* the iteration of the directed counter is over
directed_end(v) ==
    /\ pc = "running"
    /\ iter[v].phase = "in_loop"
    /\ iter[v].rest = {} /\ iter[v].slice = << >> /\ iter[v].ops = << >>
    /\ iter' = [iter EXCEPT ![v].phase = "done"]
    /\ UNCHANGED <<inputs, pc, fn, results>>

\* one pass of the inner for loop of the local counter (lines 91-92)
local_elem(v) ==
    /\ pc = "running"
    /\ iter[v].phase = "local_loop"
    /\ iter[v].slice # << >>
    /\ iter' = [iter EXCEPT ![v].slice = Tail(@),
                    ![v].num_t = IF Head(iter[v].slice) \in iter[v].out_egonet
                                 THEN @ + 1 ELSE @]
    /\ UNCHANGED <<inputs, pc, fn, results>>

\* num_triangles[v] = num_t (line 93) ends the iteration
local_end(v) ==
    /\ pc = "running"
    /\ iter[v].phase = "local_loop"
    /\ iter[v].rest = {} /\ iter[v].slice = << >>
    /\ num_triangles' = [num_triangles EXCEPT ![write_slot(v)] = iter[v].num_t]
    /\ iter' = [iter EXCEPT ![v].phase = "done"]
    /\ UNCHANGED <<inputs, pc, fn, num_out_triangles, num_in_triangles,
                   num_cycle_triangles, num_middle_triangles>>

\* the prange is joined and the arrays are returned (lines 68-73, 94)
join ==
    /\ pc = "running"
    /\ \A v \in DOMAIN iter : iter[v].phase = "done"
    /\ pc' = "returned"
    /\ UNCHANGED <<inputs, fn, results, iter>>

NextPar ==
    \/ directed_enter
    \/ local_enter
    \/ \E v \in DOMAIN iter :
           \/ begin(v)
           \/ next_neigh(v)
           \/ directed_elem(v)
           \/ load(v)
           \/ store(v)
           \/ second_loop(v)
           \/ directed_end(v)
           \/ local_elem(v)
           \/ local_end(v)
    \/ join

SpecPar == InitPar /\ [][NextPar]_vars

\* the graphs of at most MaxFairSlots edges, self-loops allowed
FairInputs ==
    UNION { { CSRFromEdges(E, n) :
                E \in { F \in SUBSET ((0..(n - 1)) \X (0..(n - 1))) :
                           Cardinality(F) <= MaxFairSlots } } :
            n \in 1..MaxFairNodes }

InitParFair ==
    /\ \E c \in FairInputs :
           /\ out_indices = c[1] /\ out_indptr = c[2]
           /\ in_indices = CSRTranspose(c)[1] /\ in_indptr = CSRTranspose(c)[2]
    /\ pc = "ready"
    /\ fn = "none"
    /\ num_out_triangles = << >>
    /\ num_in_triangles = << >>
    /\ num_cycle_triangles = << >>
    /\ num_middle_triangles = << >>
    /\ num_triangles = << >>
    /\ iter = [v \in 0..(num_nodes_of(out_indptr) - 1) |-> Waiting]

\* the worker threads keep running: a call that can take a step takes one
SpecParFair == InitParFair /\ [][NextPar]_vars /\ WF_vars(NextPar)

(***************************************************************************)
(* Vocabulary of the properties                                            *)
(***************************************************************************)
OutCSR == << out_indices, out_indptr >>
InCSR == << in_indices, in_indptr >>
N == num_nodes_of(out_indptr)
NodeIds == 0..(N - 1)

\* both adjacencies are valid CSRs over the same nodes
ValidInput ==
    /\ ValidCSR(out_indices, out_indptr)
    /\ ValidCSR(in_indices, in_indptr)
    /\ Len(in_indptr) = Len(out_indptr)

Returned(f) == pc = "returned" /\ fn = f

\* no slice holds its own node
SelfLoopFree(c) ==
    \A v \in 0..(num_nodes_of(c[2]) - 1) : v \notin set(Slice(c, v))

\* d holds, for every edge s -> t of c (with its multiplicity), s in the slice of t
IsTranspose(c, d) ==
    /\ Len(d[2]) = Len(c[2])
    /\ \A s \in 0..(num_nodes_of(c[2]) - 1) : \A t \in 0..(num_nodes_of(c[2]) - 1) :
           Occ(Slice(d, t), s) = Occ(Slice(c, s), t)

\* number of pairs (w, occurrence x in the slice of w) with w in From,
\* x in Into and x not in Excl
PairCount(c, From, Into, Excl) ==
    Cardinality({ p \in From \X (1..Len(c[1])) :
                    /\ p[2] <= Len(Slice(c, p[1]))
                    /\ Slice(c, p[1])[p[2]] \in Into
                    /\ Slice(c, p[1])[p[2]] \notin Excl })

OutEgonet(v) == set(Slice(OutCSR, v))
InEgonet(v) == set(Slice(InCSR, v))

\* the graph made of two disconnected copies of c, the second shifted by n
Dup(c) ==
    LET n == num_nodes_of(c[2])
        shifted(v) == [i \in 1..Len(Slice(c, v)) |-> Slice(c, v)[i] + n]
    IN  CSRFromRows([v \in 0..(2 * n - 1) |->
                        IF v < n THEN Slice(c, v) ELSE shifted(v - n)], 2 * n)

\* u and w are joined by an edge of c, in either direction
Adjacent(c, u, w) == w \in set(Slice(c, u)) \/ u \in set(Slice(c, w))

\* no three distinct nodes of c are mutually adjacent
TriangleFree(c) ==
    \A u \in 0..(num_nodes_of(c[2]) - 1) : \A w \in 0..(num_nodes_of(c[2]) - 1) :
        \A x \in 0..(num_nodes_of(c[2]) - 1) :
            (u # w /\ w # x /\ u # x) =>
                ~(Adjacent(c, u, w) /\ Adjacent(c, w, x) /\ Adjacent(c, u, x))

AllZero(arr) == \A i \in 1..Len(arr) : arr[i] = 0

(***************************************************************************)
(* C1: whatever the order of the node iterations, their distribution over  *)
(* the worker threads and the interleaving of their reads and writes, both *)
(* counters return the arrays of the sequential loop.                      *)
(***************************************************************************)
C1_OrderIndependent ==
    /\ Returned("directed") =>
           \A oob \in Garbage :
               returned_tuple = count_number_triangles_directed(
                   out_indices, out_indptr, in_indices, in_indptr, oob)
    /\ Returned("local") =>
           \A oob \in Garbage :
               num_triangles = count_number_local_triangles(out_indices, out_indptr, oob)

\* a directed call has returned after two iterations each incremented a counter
C1_Witness ==
    /\ Returned("directed")
    /\ \E i \in 1..N : \E j \in 1..N :
           i # j /\ num_out_triangles[i] > 0 /\ num_cycle_triangles[j] > 0

(***************************************************************************)
(* C2: on valid input the directed counter returns, per node v, the four   *)
(* pair counts of the definitions, in the order (out, in, cycle,           *)
(* middleman).                                                             *)
(***************************************************************************)
C2_DirectedDefinitions ==
    (Returned("directed") /\ ValidInput) =>
        /\ Len(returned_tuple) = 4
        /\ \A k \in 1..4 : Len(returned_tuple[k]) = N
        /\ \A v \in NodeIds :
               /\ returned_tuple[1][v + 1] =
                      PairCount(OutCSR, OutEgonet(v), OutEgonet(v), {v})
               /\ returned_tuple[2][v + 1] =
                      PairCount(OutCSR, InEgonet(v), InEgonet(v), {v})
               /\ returned_tuple[3][v + 1] =
                      PairCount(OutCSR, OutEgonet(v), InEgonet(v), {v})
               /\ returned_tuple[4][v + 1] =
                      PairCount(OutCSR, InEgonet(v), OutEgonet(v), {v})

\* a node with a self-loop and a reciprocal edge, so that the skip decides
C2_Witness ==
    /\ Returned("directed") /\ ValidInput
    /\ \E v \in NodeIds :
           /\ v \in OutEgonet(v)
           /\ num_out_triangles[v + 1] > 0
           /\ PairCount(OutCSR, OutEgonet(v), OutEgonet(v), {}) > num_out_triangles[v + 1]

(***************************************************************************)
(* C3: on valid input the local counter returns N slots, slot v holding    *)
(* the number of pairs (u, occurrence x in neighbors(u)) with u and x in   *)
(* egonet(v); nothing is excluded for x = v or u = v.                      *)
(***************************************************************************)
C3_LocalDefinition ==
    (Returned("local") /\ ValidInput) =>
        /\ Len(num_triangles) = N
        /\ \A v \in NodeIds :
               num_triangles[v + 1] = PairCount(OutCSR, OutEgonet(v), OutEgonet(v), {})

\* a node whose count includes pairs with x = v
C3_Witness ==
    /\ Returned("local") /\ ValidInput
    /\ \E v \in NodeIds :
           num_triangles[v + 1] > PairCount(OutCSR, OutEgonet(v), OutEgonet(v), {v})

(***************************************************************************)
(* C4: on a self-loop-free graph with exact-transpose CSRs, the call with  *)
(* the two CSRs swapped returns out = the original in, in = the original   *)
(* out and cycle = the original cycle.                                     *)
(***************************************************************************)
C4_SwapOutIn ==
    (Returned("directed") /\ ValidInput /\ SelfLoopFree(OutCSR)
        /\ IsTranspose(OutCSR, InCSR)) =>
        LET sw == count_number_triangles_directed(
                      in_indices, in_indptr, out_indices, out_indptr, Unread)
        IN  /\ sw[1] = returned_tuple[2]
            /\ sw[2] = returned_tuple[1]
            /\ sw[3] = returned_tuple[3]

\* a graph whose out and in counts differ and that has a cycle count
C4_Witness ==
    /\ Returned("directed") /\ ValidInput /\ SelfLoopFree(OutCSR)
    /\ IsTranspose(OutCSR, InCSR)
    /\ num_out_triangles # num_in_triangles
    /\ ~AllZero(num_cycle_triangles)

(***************************************************************************)
(* C5: on the graph made of two disconnected copies of a valid graph,      *)
(* either counter returns each array of the single graph twice in a row.   *)
(***************************************************************************)
C5_TwoCopies ==
    /\ (Returned("directed") /\ ValidInput) =>
           LET two == count_number_triangles_directed(
                          Dup(OutCSR)[1], Dup(OutCSR)[2],
                          Dup(InCSR)[1], Dup(InCSR)[2], Unread)
           IN  \A k \in 1..4 : two[k] = returned_tuple[k] \o returned_tuple[k]
    /\ (Returned("local") /\ ValidInput) =>
           count_number_local_triangles(Dup(OutCSR)[1], Dup(OutCSR)[2], Unread)
               = num_triangles \o num_triangles

\* a graph with counts that are not all 0, on either counter
C5_Witness ==
    /\ Returned("local") /\ ValidInput
    /\ N >= 2
    /\ num_triangles[1] > 0

(***************************************************************************)
(* C6: an indptr that is not non-decreasing, or whose last value is not    *)
(* the length of the neighbour array, is reported as an error at entry:    *)
(* no count array is returned for it.                                      *)
(***************************************************************************)
InvalidIndptr(indices, indptr) ==
    \/ \E i \in 1..(Len(indptr) - 1) : indptr[i] > indptr[i + 1]
    \/ indptr[Len(indptr)] # Len(indices)

C6_InvalidIndptrRejected ==
    (InvalidIndptr(out_indices, out_indptr) \/ InvalidIndptr(in_indices, in_indptr))
        => pc # "returned"

(***************************************************************************)
(* C7: with an entry of a neighbour array outside [0, N), a call ends in   *)
(* an error; it never returns a count array.                               *)
(***************************************************************************)
OutOfRangeNeighbor(indices) ==
    \E i \in 1..Len(indices) : indices[i] < 0 \/ indices[i] >= N

C7_OutOfRangeRejected ==
    (OutOfRangeNeighbor(out_indices) \/ OutOfRangeNeighbor(in_indices))
        => pc # "returned"

(***************************************************************************)
(* C8: on a valid self-loop-free graph without a triangle in its           *)
(* underlying undirected graph, the local counter returns only zeros, and  *)
(* so does the directed counter on exact-transpose CSRs.                   *)
(***************************************************************************)
C8_TriangleFreeZero ==
    /\ (Returned("local") /\ ValidInput /\ SelfLoopFree(OutCSR)
           /\ TriangleFree(OutCSR)) => AllZero(num_triangles)
    /\ (Returned("directed") /\ ValidInput /\ SelfLoopFree(OutCSR)
           /\ IsTranspose(OutCSR, InCSR) /\ TriangleFree(OutCSR)) =>
           \A k \in 1..4 : AllZero(returned_tuple[k])

\* a path of three nodes with a reciprocal edge
C8_Witness ==
    /\ Returned("directed") /\ ValidInput /\ SelfLoopFree(OutCSR)
    /\ IsTranspose(OutCSR, InCSR) /\ TriangleFree(OutCSR)
    /\ N = 3
    /\ \E a \in NodeIds : \E b \in NodeIds : \E c \in NodeIds :
           /\ a # c
           /\ b \in OutEgonet(a) /\ a \in OutEgonet(b) /\ c \in OutEgonet(b)

(***************************************************************************)
(* C9: on the directed 3-cycle a -> b -> c -> a with no other edge, every  *)
(* node of the cycle has cycle count 1 and out, in and middleman count 0.  *)
(***************************************************************************)
\* the input is the graph of exactly the edges E, with exact-transpose CSRs
InputIsGraph(E) ==
    /\ ValidInput
    /\ IsTranspose(OutCSR, InCSR)
    /\ \A s \in NodeIds : \A t \in NodeIds :
           Occ(Slice(OutCSR, s), t) = (IF <<s, t>> \in E THEN 1 ELSE 0)

C9_ThreeCycle ==
    \A a \in NodeIds : \A b \in NodeIds : \A c \in NodeIds :
        (/\ Returned("directed")
         /\ a # b /\ b # c /\ a # c
         /\ InputIsGraph({<<a, b>>, <<b, c>>, <<c, a>>})) =>
            \A v \in {a, b, c} :
                /\ num_cycle_triangles[v + 1] = 1
                /\ num_out_triangles[v + 1] = 0
                /\ num_in_triangles[v + 1] = 0
                /\ num_middle_triangles[v + 1] = 0

C9_Witness ==
    /\ Returned("directed")
    /\ InputIsGraph({<<0, 1>>, <<1, 2>>, <<2, 0>>})

(***************************************************************************)
(* C10: on the graph of exactly the edges a -> c, b -> c, a -> b the       *)
(* counter returns in[c] = 1, out[a] = 1, middleman[b] = 1 and 0 in every  *)
(* other entry, all cycle counts included.                                 *)
(***************************************************************************)
C10_Convergent ==
    \A a \in NodeIds : \A b \in NodeIds : \A c \in NodeIds :
        (/\ Returned("directed")
         /\ a # b /\ b # c /\ a # c
         /\ InputIsGraph({<<a, c>>, <<b, c>>, <<a, b>>})) =>
            \A v \in NodeIds :
                /\ num_in_triangles[v + 1] = (IF v = c THEN 1 ELSE 0)
                /\ num_out_triangles[v + 1] = (IF v = a THEN 1 ELSE 0)
                /\ num_middle_triangles[v + 1] = (IF v = b THEN 1 ELSE 0)
                /\ num_cycle_triangles[v + 1] = 0

C10_Witness ==
    /\ Returned("directed")
    /\ InputIsGraph({<<0, 2>>, <<1, 2>>, <<0, 1>>})

(***************************************************************************)
(* C11: on the undirected triangle stored in both directions the local     *)
(* counter returns 2 for each node; on every symmetric CSR without         *)
(* self-loops and repeated entries the count of v is twice the number of   *)
(* undirected triangles that contain v.                                    *)
(***************************************************************************)
\* every edge is stored in both directions
Symmetric(c) ==
    \A u \in 0..(num_nodes_of(c[2]) - 1) : \A w \in set(Slice(c, u)) :
        u \in set(Slice(c, w))

\* no slice holds a node twice
NoRepeats(c) ==
    \A u \in 0..(num_nodes_of(c[2]) - 1) : \A w \in 0..(num_nodes_of(c[2]) - 1) :
        Occ(Slice(c, u), w) <= 1

\* the undirected triangles that contain v, each as the set of its other two nodes
TrianglesAt(c, v) ==
    { T \in SUBSET (0..(num_nodes_of(c[2]) - 1)) :
        /\ Cardinality(T) = 2
        /\ v \notin T
        /\ \A u \in T : Adjacent(c, u, v)
        /\ \A u \in T : \A w \in T : u # w => Adjacent(c, u, w) }

C11_TwiceTriangles ==
    (Returned("local") /\ ValidInput /\ Symmetric(OutCSR)
        /\ SelfLoopFree(OutCSR) /\ NoRepeats(OutCSR)) =>
        /\ \A v \in NodeIds :
               num_triangles[v + 1] = 2 * Cardinality(TrianglesAt(OutCSR, v))
        /\ \A a \in NodeIds : \A b \in NodeIds : \A c \in NodeIds :
               (/\ a # b /\ b # c /\ a # c
                /\ \A s \in NodeIds : \A t \in NodeIds :
                       Occ(Slice(OutCSR, s), t) =
                           (IF s # t /\ {s, t} \subseteq {a, b, c} THEN 1 ELSE 0)) =>
                   \A v \in {a, b, c} : num_triangles[v + 1] = 2

\* the triangle on the nodes 0, 1, 2
C11_Witness ==
    /\ Returned("local") /\ ValidInput /\ N = 3
    /\ OutCSR = CSRFromEdges(LooplessPairs(3), 3)
    /\ num_triangles = << 2, 2, 2 >>

(***************************************************************************)
(* C12: under fair scheduling every call on a valid input returns, and it  *)
(* returns only after every node iteration has run, each exactly once, so  *)
(* that no partially filled array is returned.                             *)
(***************************************************************************)
\* how far an iteration has got
PhaseRank(phase) ==
    CASE phase = "waiting" -> 0
      [] phase \in {"out_loop", "local_loop"} -> 1
      [] phase = "in_loop" -> 2
      [] phase = "done" -> 3

C12_TerminatesComplete ==
    /\ <>(pc = "returned")
    /\ [](pc = "returned" =>
            /\ \A v \in NodeIds : iter[v].phase = "done"
            /\ fn = "directed" =>
                   returned_tuple = count_number_triangles_directed(
                       out_indices, out_indptr, in_indices, in_indptr, Unread)
            /\ fn = "local" =>
                   num_triangles = count_number_local_triangles(
                       out_indices, out_indptr, Unread))
    /\ [][\A v \in NodeIds :
              PhaseRank(iter'[v].phase) >= PhaseRank(iter[v].phase)]_vars

\* a call has returned counts that are not all 0 for a graph of several nodes
C12_Witness ==
    /\ pc = "returned" /\ N >= 2
    /\ \A v \in NodeIds : iter[v].phase = "done"
    /\ \/ fn = "local" /\ ~AllZero(num_triangles)
       \/ fn = "directed" /\ ~AllZero(num_middle_triangles)

(***************************************************************************)
(* C13: the iteration of node v writes only slot v of the result arrays,   *)
(* reads no other result slot and writes no input array; no update of a    *)
(* slot is lost to another iteration, and a slot is never negative and     *)
(* never decreases during a call.                                          *)
(***************************************************************************)
\* in a step of a running call, array arr changes only in the slot of the one
\* iteration that takes the step, and only upwards
OwnSlotOnly(arr, arr2) ==
    /\ Len(arr2) = Len(arr)
    /\ \A i \in 1..Len(arr) :
           /\ arr[i] >= 0
           /\ arr2[i] >= arr[i]
           /\ arr2[i] # arr[i] =>
                  /\ iter'[i - 1] # iter[i - 1]
                  /\ \A w \in DOMAIN iter : w # i - 1 => iter'[w] = iter[w]

\* an increment adds one to what the slot holds when it is written
NoLostUpdate(arr, arr2) ==
    \A i \in 1..Len(arr) : arr2[i] # arr[i] => arr2[i] = arr[i] + 1

C13_DisjointWrites ==
    [][/\ inputs' = inputs
       /\ pc = "running" =>
              /\ OwnSlotOnly(num_out_triangles, num_out_triangles')
              /\ OwnSlotOnly(num_in_triangles, num_in_triangles')
              /\ OwnSlotOnly(num_cycle_triangles, num_cycle_triangles')
              /\ OwnSlotOnly(num_middle_triangles, num_middle_triangles')
              /\ OwnSlotOnly(num_triangles, num_triangles')
              /\ NoLostUpdate(num_out_triangles, num_out_triangles')
              /\ NoLostUpdate(num_in_triangles, num_in_triangles')
              /\ NoLostUpdate(num_cycle_triangles, num_cycle_triangles')
              /\ NoLostUpdate(num_middle_triangles, num_middle_triangles')
              /\ \A v \in DOMAIN iter :
                     (iter[v].reg = << >> /\ iter'[v].reg # << >>) =>
                         iter'[v].reg[1] = array_of(Head(iter[v].ops))[v + 1]]_vars

\* two iterations are both between the read and the write of an increment
C13_Witness ==
    /\ pc = "running" /\ fn = "directed"
    /\ \E v \in DOMAIN iter : \E w \in DOMAIN iter :
           /\ v # w
           /\ iter[v].reg # << >> /\ iter[w].reg # << >>
           /\ num_out_triangles[v + 1] + num_cycle_triangles[v + 1] > 0

(***************************************************************************)
(* C14: repeated entries in the slice of a node v do not multiply its      *)
(* count.  As claimed: count[v] is the count on the CSR with every slice   *)
(* deduplicated.  As amended: count[v] is the count on the CSR with the    *)
(* slices of the nodes outside egonet(v) deduplicated (the slice of v      *)
(* itself, unless v is its own neighbour); the slices of the nodes of      *)
(* egonet(v) are counted once per occurrence.                              *)
(***************************************************************************)
RECURSIVE DedupSeq(_, _)
\* s without the entries that are in seen or occur earlier in s
DedupSeq(s, seen) ==
    IF s = << >> THEN << >>
    ELSE IF Head(s) \in seen THEN DedupSeq(Tail(s), seen)
    ELSE << Head(s) >> \o DedupSeq(Tail(s), seen \cup {Head(s)})

\* c with the slice of every node of Which deduplicated
DedupCSR(c, Which) ==
    CSRFromRows([u \in 0..(num_nodes_of(c[2]) - 1) |->
                    IF u \in Which THEN DedupSeq(Slice(c, u), {}) ELSE Slice(c, u)],
                num_nodes_of(c[2]))

HasRepeats(s) == \E x \in set(s) : Occ(s, x) > 1

\* the original statement
C14_DedupWholeCSR ==
    (Returned("local") /\ ValidInput) =>
        \A v \in NodeIds :
            HasRepeats(Slice(OutCSR, v)) =>
                LET d == DedupCSR(OutCSR, NodeIds)
                IN  num_triangles[v + 1] =
                        count_number_local_triangles(d[1], d[2], Unread)[v + 1]

\* the amended statement
C14_DedupOutsideEgonet ==
    (Returned("local") /\ ValidInput) =>
        \A v \in NodeIds :
            LET d == DedupCSR(OutCSR, NodeIds \ OutEgonet(v))
            IN  num_triangles[v + 1] =
                    count_number_local_triangles(d[1], d[2], Unread)[v + 1]

\* a node with a repeated neighbour, no self-loop and a count that is not 0
C14_Witness ==
    /\ Returned("local") /\ ValidInput
    /\ \E v \in NodeIds :
           /\ HasRepeats(Slice(OutCSR, v))
           /\ v \notin OutEgonet(v)
           /\ num_triangles[v + 1] > 0

(***************************************************************************)
(* C15: on a self-loop-free graph with exact-transpose CSRs, the call with *)
(* the two CSRs swapped returns the same middleman counts.                 *)
(***************************************************************************)
C15_SwapKeepsMiddleman ==
    (Returned("directed") /\ ValidInput /\ SelfLoopFree(OutCSR)
        /\ IsTranspose(OutCSR, InCSR)) =>
        count_number_triangles_directed(
            in_indices, in_indptr, out_indices, out_indptr, Unread)[4]
            = returned_tuple[4]

\* a graph that is not symmetric, with a middleman count and out # in counts
C15_Witness ==
    /\ Returned("directed") /\ ValidInput /\ SelfLoopFree(OutCSR)
    /\ IsTranspose(OutCSR, InCSR)
    /\ ~Symmetric(OutCSR)
    /\ ~AllZero(num_middle_triangles)
    /\ num_out_triangles # num_in_triangles

(***************************************************************************)
(* C16: on a symmetric self-loop-free CSR passed as both the out- and the  *)
(* in-adjacency, each of the four arrays of the directed counter equals    *)
(* the array of the local counter.                                         *)
(***************************************************************************)
C16_DirectedEqualsLocal ==
    (Returned("directed") /\ ValidInput /\ InCSR = OutCSR
        /\ Symmetric(OutCSR) /\ SelfLoopFree(OutCSR)) =>
        \A k \in 1..4 :
            returned_tuple[k] =
                count_number_local_triangles(out_indices, out_indptr, Unread)

\* a symmetric graph with a triangle
C16_Witness ==
    /\ Returned("directed") /\ ValidInput /\ InCSR = OutCSR
    /\ Symmetric(OutCSR) /\ SelfLoopFree(OutCSR)
    /\ ~AllZero(num_middle_triangles)

(***************************************************************************)
(* C17: on a graph without self-loops and repeated entries, with           *)
(* exact-transpose CSRs, the out, in and middleman counts have the same    *)
(* sum over the nodes, and the sum of the cycle counts is a multiple of 3. *)
(***************************************************************************)
RECURSIVE SumSeq(_)
SumSeq(s) == IF s = << >> THEN 0 ELSE Head(s) + SumSeq(Tail(s))

C17_MotifSums ==
    (Returned("directed") /\ ValidInput /\ SelfLoopFree(OutCSR)
        /\ NoRepeats(OutCSR) /\ IsTranspose(OutCSR, InCSR)) =>
        /\ SumSeq(num_out_triangles) = SumSeq(num_in_triangles)
        /\ SumSeq(num_out_triangles) = SumSeq(num_middle_triangles)
        /\ SumSeq(num_cycle_triangles) % 3 = 0

\* a graph with a transitive triple and a directed 3-cycle
C17_Witness ==
    /\ Returned("directed") /\ ValidInput /\ SelfLoopFree(OutCSR)
    /\ NoRepeats(OutCSR) /\ IsTranspose(OutCSR, InCSR)
    /\ SumSeq(num_out_triangles) > 0
    /\ SumSeq(num_cycle_triangles) > 0
    /\ num_out_triangles # num_cycle_triangles

(***************************************************************************)
(* C18: when no out-slice and no in-slice holds its own node, the "== v"   *)
(* skip changes nothing: the counter without the two skips returns the     *)
(* same four arrays.                                                       *)
(***************************************************************************)
\* the directed counter with both skips removed
RECURSIVE NoSkipOuter(_, _, _, _, _, _)
NoSkipOuter(rest, v, out_egonet, in_egonet, c, acc) ==
    IF rest = {} THEN acc
    ELSE LET neigh == CHOOSE n \in rest : TRUE
         IN  NoSkipOuter(rest \ {neigh}, v, out_egonet, in_egonet, c,
                 directed_inner_noskip(Slice(c, neigh), v, out_egonet, in_egonet, acc))

NoSkipCounts(v) ==
    LET a == NoSkipOuter(OutEgonet(v), v, OutEgonet(v), InEgonet(v), OutCSR, <<0, 0>>)
        b == NoSkipOuter(InEgonet(v), v, OutEgonet(v), InEgonet(v), OutCSR, <<0, 0>>)
    IN  << a[1], b[2], a[2], b[1] >>

C18_SkipIsNoOp ==
    (Returned("directed") /\ ValidInput /\ SelfLoopFree(OutCSR)
        /\ SelfLoopFree(InCSR)) =>
        \A v \in NodeIds : \A k \in 1..4 :
            returned_tuple[k][v + 1] = NoSkipCounts(v)[k]

\* a reciprocal edge makes the skip fire while a counter is incremented
C18_Witness ==
    /\ Returned("directed") /\ ValidInput /\ SelfLoopFree(OutCSR)
    /\ SelfLoopFree(InCSR)
    /\ \E v \in NodeIds : \E w \in OutEgonet(v) :
           /\ v \in set(Slice(OutCSR, w))
           /\ num_out_triangles[v + 1] > 0

=============================================================================
